---- MODULE Spec2Model ----
(***************************************************************************)
(* OBS Control Pro (src/main.py): the connection controller                *)
(* (OBSController), the schedule query of DatabaseManager and the          *)
(* scheduler loop driven by MainWindow's timers.                           *)
(*                                                                         *)
(* Text values of the program are modelled by what the code does with      *)
(* them: a port is a sequence of characters (isdigit / int), a             *)
(* schedule_time is a sequence of digits compared as SQLite compares TEXT. *)
(***************************************************************************)
EXTENDS Integers, Sequences, FiniteSets, TLC

VARIABLES
    connected,    \* OBSController.connected
    client,       \* OBSController.client: "None", "open" or "closed"
    last_error,   \* OBSController.last_error
    observers,    \* OBSController._observers, in registration order
    remoteUp,     \* environment: the OBS websocket service answers
    now,          \* environment: the wall clock, in seconds
    sched,        \* table scene_schedule, row id = index
    hist,         \* table scene_history, row id = index
    audit,        \* per schedule row: remote commands issued / succeeded
    lastop,       \* the most recent controller call and what it did
    result,       \* what the most recent direct get_scheduled_scenes call returned
    loop          \* the event loop of the GUI thread: timers and running handlers

vars == <<connected, client, last_error, observers, remoteUp, now, sched, hist,
          audit, lastop, result,
                   loop>>

----------------------------------------------------------------------------
(* Bounds of the model. *)

MaxObservers == 2
MaxEntries == 2
MaxRows == 3
MaxTime == 11
MaxHist == 2

(* Program constants. *)
PortMin == 1
PortMax == 65535
scene_timer_ms == 2000
schedule_timer_ms == 1000

(* The clock starts right before a change in the first digit of the
   formatted time, and a day lasts Day seconds of the model's clock. *)
StartTime == 9
Day == 1

(* The times the operator schedules a scene change for: after the clock's
   first value, so that a row is first not yet due, then due, then overdue. *)
ScheduleTimes == {StartTime + 1}

(* repeat_days of a new schedule: 0 is "no repeat"; a count of 1 is what
   the successor of a row with count 2 carries. *)
Repeats == {0, 2}

----------------------------------------------------------------------------
(* Text: characters 0..9 are the ASCII digits, NonDigit is any character
   str.isdigit() rejects, SuperDigit is a character such as U+00B2 that
   str.isdigit() accepts and int() rejects with ValueError. *)

NonDigit == 10
SuperDigit == 11

RECURSIVE AllIn(_, _)
AllIn(s, S) == IF s = <<>> THEN TRUE ELSE Head(s) \in S /\ AllIn(Tail(s), S)

\* str.isdigit(): non-empty and every character a digit character
isdigit(s) == s # <<>> /\ AllIn(s, (0..9) \cup {SuperDigit})

\* int(s) raises ValueError
IntRaises(s) == ~AllIn(s, 0..9) \/ s = <<>>

RECURSIVE IntAcc(_, _)
IntAcc(s, acc) == IF s = <<>> THEN acc ELSE IntAcc(Tail(s), acc * 10 + Head(s))

\* int(s) for a string of ASCII digits
int(s) == IntAcc(s, 0)

Hosts == {"", "localhost"}
Passwords == {"", "secret", "wrong"}
Ports == { <<>>, <<0>>, <<1>>, <<0, 8, 0>>, <<4, 4, 5, 5>>, <<6, 5, 5, 3, 5>>,
           <<6, 5, 5, 3, 6>>, <<NonDigit>>, <<4, NonDigit>>, <<SuperDigit>> }

\* The credential the remote service accepts.
RemotePassword == "secret"

\* The scenes that exist in the remote service; "X" is a name it rejects.
RemoteScenes == {"A", "B"}
SceneNames == {"A", "B", "X"}

ErrFields == "Preencha todos os campos"
ErrPort == "Porta invalida (1-65535)"
ErrExc == "Erro"

\* The value a call returned, as Python prints it.
Repr(b) == IF b THEN "True" ELSE "False"

NoResult == [at |-> -1, rows |-> <<>>]

NoOp == [op |-> "none", by |-> "none", arg |-> "", prior |-> FALSE,
         ret |-> FALSE, sent |-> FALSE, ok |-> FALSE, fired |-> <<>>,
         raised |-> FALSE, val |-> "None"]

----------------------------------------------------------------------------
(* OBSController *)

\* The callbacks a caller can register: the history hook, a display
\* callback, and a callback that raises.
Hook == "hook"
Display == "display"
Raising == "raising"

\* obs.ReqClient(...) opens the socket and authenticates; it raises when the
\* service is unreachable or refuses the credential.
CtorRaises(password) == ~remoteUp \/ password # RemotePassword

\* connect that sets the flag before get_version() has answered.
ConnectResultFlagFirst(host, port, password, verOk) ==
    LET keep == [connected |-> connected, client |-> client,
                 last_error |-> last_error, ret |-> FALSE, sent |-> FALSE,
                 ok |-> FALSE, raised |-> FALSE]
    IN  IF host = "" \/ port = <<>> \/ password = ""
        THEN [keep EXCEPT !.last_error = ErrFields]
        ELSE IF ~isdigit(port)
        THEN [keep EXCEPT !.last_error = ErrPort]
        ELSE IF IntRaises(port)
        THEN [keep EXCEPT !.last_error = ErrExc]
        ELSE IF ~(PortMin <= int(port) /\ int(port) <= PortMax)
        THEN [keep EXCEPT !.last_error = ErrPort]
        ELSE IF CtorRaises(password)
        THEN [keep EXCEPT !.last_error = ErrExc, !.sent = TRUE]
        ELSE IF ~verOk
        THEN [keep EXCEPT !.client = "open", !.connected = TRUE,
                          !.last_error = ErrExc, !.sent = TRUE]
        ELSE [keep EXCEPT !.client = "open", !.connected = TRUE, !.ret = TRUE,
                          !.sent = TRUE, !.ok = TRUE]

\* connect(host, port, password): the outcome as a record of the new field
\* values and the return value.  verOk: get_version() answers.
ConnectResult(host, port, password, verOk) ==
    LET keep == [connected |-> connected, client |-> client,
                 last_error |-> last_error, ret |-> FALSE, sent |-> FALSE,
                 ok |-> FALSE, raised |-> FALSE]
    IN  IF host = "" \/ port = <<>> \/ password = ""
        THEN [keep EXCEPT !.last_error = ErrFields]
        ELSE IF ~isdigit(port)
        THEN [keep EXCEPT !.last_error = ErrPort]
        ELSE IF IntRaises(port)
        THEN [keep EXCEPT !.last_error = ErrExc]
        ELSE IF ~(PortMin <= int(port) /\ int(port) <= PortMax)
        THEN [keep EXCEPT !.last_error = ErrPort]
        ELSE IF CtorRaises(password)
        THEN [keep EXCEPT !.last_error = ErrExc, !.sent = TRUE]
        ELSE IF ~verOk
        THEN [keep EXCEPT !.client = "open", !.last_error = ErrExc, !.sent = TRUE]
        ELSE [keep EXCEPT !.client = "open", !.connected = TRUE, !.ret = TRUE,
                          !.sent = TRUE, !.ok = TRUE]

Connect(host, port, password, verOk) ==
    LET r == ConnectResult(host, port, password, verOk)
    IN  /\ connected' = r.connected
        /\ client' = r.client
        /\ last_error' = r.last_error
        /\ lastop' = [NoOp EXCEPT !.op = "connect", !.by = "user",
                                  !.prior = connected, !.ret = r.ret,
                                  !.sent = r.sent, !.ok = r.ok,
                                  !.raised = r.raised, !.val = Repr(r.ret)]
        /\ UNCHANGED <<observers, remoteUp, now, sched, hist, audit, result,
                   loop>>

\* disconnect() without its finally clause: the flag is cleared after a
\* close that did not raise.
DisconnectNoFinally(closeOk) ==
    /\ IF connected /\ client # "None"
       THEN /\ connected' = ~closeOk
            /\ client' = IF closeOk THEN "closed" ELSE client
       ELSE UNCHANGED <<connected, client>>
    /\ lastop' = [NoOp EXCEPT !.op = "disconnect", !.by = "user",
                              !.prior = connected,
                              !.sent = connected /\ client # "None",
                              !.ok = connected /\ client # "None" /\ closeOk]
    /\ UNCHANGED <<last_error, observers, remoteUp, now, sched, hist, audit, result,
                   loop>>

\* disconnect(): closeOk is FALSE when client.disconnect() raises.
Disconnect(closeOk) ==
    /\ IF connected /\ client # "None"
       THEN /\ connected' = FALSE
            /\ client' = IF closeOk THEN "closed" ELSE client
       ELSE UNCHANGED <<connected, client>>
    /\ lastop' = [NoOp EXCEPT !.op = "disconnect", !.by = "user",
                              !.prior = connected,
                              !.sent = connected /\ client # "None",
                              !.ok = connected /\ client # "None" /\ closeOk]
    /\ UNCHANGED <<last_error, observers, remoteUp, now, sched, hist, audit, result,
                   loop>>

\* add_observer(callback)
AddObserver(callback) ==
    /\ Len(observers) < MaxObservers
    /\ observers' = Append(observers, callback)
    /\ lastop' = [NoOp EXCEPT !.op = "add_observer", !.by = "user",
                              !.prior = connected]
    /\ UNCHANGED <<connected, client, last_error, remoteUp, now, sched, hist,
                   audit, result,
                   loop>>

\* _notify_observers(scene_name): the calls made, in order; the loop ends at
\* the first callback that raises, and the exception leaves the loop.
RECURSIVE Invoked(_, _)
Invoked(obsv, scene_name) ==
    IF obsv = <<>> THEN <<>>
    ELSE IF Head(obsv) = Raising THEN <<[cb |-> Head(obsv), arg |-> scene_name]>>
    ELSE <<[cb |-> Head(obsv), arg |-> scene_name]>> \o Invoked(Tail(obsv), scene_name)

NotifyObservers(obsv, scene_name) ==
    [fired |-> Invoked(obsv, scene_name),
     raised |-> \E i \in DOMAIN obsv : obsv[i] = Raising]

\* client.set_current_program_scene(name) succeeds
RemoteAccepts(up, cl, name) == up /\ cl = "open" /\ name \in RemoteScenes

\* set_scene without its "if not self.connected" check.
SetSceneNoGuard(conn, cl, obsv, up, name) ==
    IF ~RemoteAccepts(up, cl, name)
    THEN [ret |-> FALSE, sent |-> TRUE, ok |-> FALSE, fired |-> <<>>,
          raised |-> FALSE]
    ELSE LET n == NotifyObservers(obsv, name)
         IN  [ret |-> ~n.raised, sent |-> TRUE, ok |-> TRUE, fired |-> n.fired,
              raised |-> FALSE]

\* set_scene whose except branch reports success.
SetSceneSwallows(conn, cl, obsv, up, name) ==
    IF ~conn
    THEN [ret |-> FALSE, sent |-> FALSE, ok |-> FALSE, fired |-> <<>>,
          raised |-> FALSE]
    ELSE IF ~RemoteAccepts(up, cl, name)
    THEN [ret |-> TRUE, sent |-> TRUE, ok |-> FALSE, fired |-> <<>>,
          raised |-> FALSE]
    ELSE LET n == NotifyObservers(obsv, name)
         IN  [ret |-> TRUE, sent |-> TRUE, ok |-> TRUE, fired |-> n.fired,
              raised |-> FALSE]

\* set_scene(scene_name) on a controller with flag conn, client cl and
\* observer list obsv, against a service that is up or not.
SetSceneResult(conn, cl, obsv, up, name) ==
    IF ~conn
    THEN [ret |-> FALSE, sent |-> FALSE, ok |-> FALSE, fired |-> <<>>,
          raised |-> FALSE]
    ELSE IF ~RemoteAccepts(up, cl, name)
    THEN [ret |-> FALSE, sent |-> TRUE, ok |-> FALSE, fired |-> <<>>,
          raised |-> FALSE]
    ELSE LET n == NotifyObservers(obsv, name)
         IN  [ret |-> ~n.raised, sent |-> TRUE, ok |-> TRUE, fired |-> n.fired,
              raised |-> FALSE]

\* A remote request on the session succeeds.
RemoteAnswers(up, cl) == up /\ cl = "open"

\* get_scenes without its try: the exception of the remote call leaves it.
GetScenesNoTry(conn, cl, up) ==
    IF ~conn
    THEN [connected |-> conn, val |-> "[]", sent |-> FALSE, ok |-> FALSE,
          raised |-> FALSE]
    ELSE IF ~RemoteAnswers(up, cl)
    THEN [connected |-> conn, val |-> "None", sent |-> TRUE, ok |-> FALSE,
          raised |-> TRUE]
    ELSE [connected |-> conn, val |-> "[A, B]", sent |-> TRUE, ok |-> TRUE,
          raised |-> FALSE]

\* get_scenes(): the list of scene names, [] when not connected or when
\* get_scene_list raises.
GetScenesResult(conn, cl, up) ==
    IF ~conn
    THEN [connected |-> conn, val |-> "[]", sent |-> FALSE, ok |-> FALSE,
          raised |-> FALSE]
    ELSE IF ~RemoteAnswers(up, cl)
    THEN [connected |-> conn, val |-> "[]", sent |-> TRUE, ok |-> FALSE,
          raised |-> FALSE]
    ELSE [connected |-> conn, val |-> "[A, B]", sent |-> TRUE, ok |-> TRUE,
          raised |-> FALSE]

GetScenes ==
    LET r == GetScenesResult(connected, client, remoteUp)
    IN  /\ connected' = r.connected
        /\ lastop' = [NoOp EXCEPT !.op = "get_scenes", !.by = "user",
                                  !.prior = connected, !.ret = r.ok,
                                  !.sent = r.sent, !.ok = r.ok,
                                  !.raised = r.raised, !.val = r.val]
        /\ UNCHANGED <<client, last_error, observers, remoteUp, now, sched, hist,
                       audit, result,
                   loop>>

\* get_current_scene that marks the session as lost when the remote call
\* raises.
GetCurrentSceneFaults(conn, cl, up, answer) ==
    IF ~conn
    THEN [connected |-> conn, val |-> "None", sent |-> FALSE, ok |-> FALSE,
          raised |-> FALSE]
    ELSE IF ~RemoteAnswers(up, cl)
    THEN [connected |-> FALSE, val |-> "None", sent |-> TRUE, ok |-> FALSE,
          raised |-> FALSE]
    ELSE [connected |-> conn, val |-> answer, sent |-> TRUE, ok |-> TRUE,
          raised |-> FALSE]

\* get_current_scene(): the name the service answers, None when not
\* connected or when get_current_program_scene raises.
GetCurrentSceneResult(conn, cl, up, answer) ==
    IF ~conn
    THEN [connected |-> conn, val |-> "None", sent |-> FALSE, ok |-> FALSE,
          raised |-> FALSE]
    ELSE IF ~RemoteAnswers(up, cl)
    THEN [connected |-> conn, val |-> "None", sent |-> TRUE, ok |-> FALSE,
          raised |-> FALSE]
    ELSE [connected |-> conn, val |-> answer, sent |-> TRUE, ok |-> TRUE,
          raised |-> FALSE]

GetCurrentScene(by, answer) ==
    LET r == GetCurrentSceneResult(connected, client, remoteUp, answer)
    IN  /\ connected' = r.connected
        /\ lastop' = [NoOp EXCEPT !.op = "get_current_scene", !.by = by,
                                  !.prior = connected, !.ret = r.ok,
                                  !.sent = r.sent, !.ok = r.ok,
                                  !.raised = r.raised, !.val = r.val]
        /\ UNCHANGED <<client, last_error, observers, remoteUp, now, sched, hist,
                       audit, result,
                   loop>>

----------------------------------------------------------------------------
(* History: the observer hook closes the open record and opens a new one. *)

CloseOpen(h, t) ==
    [i \in DOMAIN h |-> IF h[i].end_time = -1
                        THEN [h[i] EXCEPT !.end_time = t,
                                          !.duration = t - h[i].start_time]
                        ELSE h[i]]

\* A hook that opens a record and closes none.
OnSceneChangedOpensOnly(h, name, t) ==
    Append(h, [scene_name |-> name, start_time |-> t, end_time |-> -1,
               duration |-> -1, status |-> "executed"])

OnSceneChanged(h, name, t) ==
    Append(CloseOpen(h, t),
           [scene_name |-> name, start_time |-> t, end_time |-> -1,
            duration |-> -1, status |-> "executed"])

RECURSIVE HistAfter(_, _, _)
HistAfter(h, fired, t) ==
    IF fired = <<>> THEN h
    ELSE HistAfter(IF Head(fired).cb = Hook
                   THEN OnSceneChanged(h, Head(fired).arg, t) ELSE h,
                   Tail(fired), t)

\* A manual switch: the operator calls set_scene(name).
SetScene(name) ==
    LET r == SetSceneResult(connected, client, observers, remoteUp, name)
    IN  /\ Len(hist) < MaxHist
        /\ hist' = HistAfter(hist, r.fired, now)
        /\ lastop' = [op |-> "set_scene", by |-> "user", arg |-> name,
                      prior |-> connected, ret |-> r.ret, sent |-> r.sent,
                      ok |-> r.ok, fired |-> r.fired, raised |-> r.raised,
                      val |-> Repr(r.ret)]
        /\ UNCHANGED <<connected, client, last_error, observers, remoteUp, now,
                       sched, audit, result,
                   loop>>

----------------------------------------------------------------------------
(* DatabaseManager: scene_schedule *)

\* A schedule_time is TEXT: two digits, zero padded.
Fmt(t) == <<t \div 10, t % 10>>

\* SQLite compares TEXT values byte by byte; a proper prefix sorts first.
RECURSIVE TextLeq(_, _)
TextLeq(a, b) ==
    IF a = <<>> THEN TRUE
    ELSE IF b = <<>> THEN FALSE
    ELSE IF Head(a) # Head(b) THEN Head(a) < Head(b)
    ELSE TextLeq(Tail(a), Tail(b))

\* The query without its status condition.
SelectedAnyStatus(row, datetime_str) ==
    TextLeq(row.schedule_time, datetime_str)

\* The query with < for <=.
SelectedStrict(row, datetime_str) ==
    /\ row.status = "pending"
    /\ TextLeq(row.schedule_time, datetime_str)
    /\ row.schedule_time # datetime_str

\* WHERE status = 'pending' AND schedule_time <= ?
Selected(row, datetime_str) ==
    row.status = "pending" /\ TextLeq(row.schedule_time, datetime_str)

DueIds(store, datetime_str) ==
    {i \in DOMAIN store : Selected(store[i], datetime_str)}

\* Row i comes before row j: in rowid order, or in schedule_time order with
\* ties in rowid order.
Before(store, plan, i, j) ==
    IF plan = "time" /\ store[i].schedule_time # store[j].schedule_time
    THEN TextLeq(store[i].schedule_time, store[j].schedule_time)
    ELSE i < j

\* The rows of a set of ids as a sequence: the n-th is the one with n - 1
\* rows before it.
Ordered(store, plan, ids) ==
    [n \in 1..Cardinality(ids) |->
        CHOOSE i \in ids :
            Cardinality({j \in ids : j # i /\ Before(store, plan, j, i)}) = n - 1]

\* get_scheduled_scenes(datetime_str): the tuples (id, scene_name,
\* repeat_days) of the rows selected, in the order returned.  The query has
\* no ORDER BY: the rows come in the order of the index the planner scans,
\* idx_schedule_status (rowid order) or idx_schedule_time (time order).
GetScheduledScenes(store, datetime_str, plan) ==
    LET ids == Ordered(store, plan, DueIds(store, datetime_str))
    IN  [k \in DOMAIN ids |->
            [id |-> ids[k], scene_name |-> store[ids[k]].scene_name,
             repeat_days |-> store[ids[k]].repeat_days]]

----------------------------------------------------------------------------
(* MainWindow: the schedule form and the 1 s schedule timer. *)

UserRows == {i \in DOMAIN audit : audit[i].origin = 0}

\* A new row of scene_schedule, status 'pending' by the column default.
NewRow(scene, text, repeat) ==
    [scene_name |-> scene, schedule_time |-> text, repeat_days |-> repeat,
     status |-> "pending"]

\* What is known of a row beside its columns: the row it was re-armed from
\* (0: none), the remote commands sent and succeeded for it, whether a tick
\* left it pending for lack of a connection, and the reason of its failure.
NewAudit(parent) ==
    [origin |-> parent, att |-> 0, ok |-> 0, deferred |-> FALSE, reason |-> ""]

\* The operator schedules a scene change for time t.
AddSchedule(scene, t, repeat) ==
    /\ Cardinality(UserRows) < MaxEntries
    /\ sched' = Append(sched, NewRow(scene, Fmt(t), repeat))
    /\ audit' = Append(audit, NewAudit(0))
    /\ UNCHANGED <<connected, client, last_error, observers, remoteUp, now,
                   hist, lastop, result,
                   loop>>

\* One tuple of a tick: obs.set_scene(scene_name).  The controller and the
\* service do not change during a tick, and a tick handles each row once,
\* so the outcome for a tuple depends on the tuple alone.
Outcome(due) ==
    SetSceneResult(connected, client, observers, remoteUp, due.scene_name)

\* The status a tick leaves a due row with: executed when the switch
\* succeeded; still pending when it failed for lack of a connection; failed
\* when it failed for any other reason.
StatusAfter(due) ==
    IF Outcome(due).ret THEN "executed"
    ELSE IF ~connected THEN "pending"
    ELSE "failed"

\* A row that executed with more than one occurrence left is re-armed.
Rearmed(due) == Outcome(due).ret /\ due.repeat_days > 1

\* The successor of a re-armed row: one day later, one occurrence less.
Successor(due) ==
    NewRow(due.scene_name, Fmt(int(sched[due.id].schedule_time) + Day),
           due.repeat_days - 1)

Bump(n) == IF n < 2 THEN n + 1 ELSE n

AuditAfter(due) ==
    [audit[due.id] EXCEPT
        !.att = IF Outcome(due).sent THEN Bump(@) ELSE @,
        !.ok = IF Outcome(due).ok THEN Bump(@) ELSE @,
        !.deferred = @ \/ (~Outcome(due).ret /\ ~connected),
        !.reason = IF StatusAfter(due) = "failed" THEN "switch failed" ELSE @]

\* The tuples of the rows that are re-armed, in the order the tick handles
\* them.
RearmedOf(dues) ==
    LET K == {k \in DOMAIN dues : Rearmed(dues[k])}
    IN  [n \in 1..Cardinality(K) |->
            dues[CHOOSE k \in K : Cardinality({m \in K : m <= k}) = n]]

\* The observer calls of a tick, in order.
RECURSIVE CallsOf(_)
CallsOf(dues) ==
    IF dues = <<>> THEN <<>> ELSE Outcome(Head(dues)).fired \o CallsOf(Tail(dues))

\* _check_schedules: one tick of the schedule timer.  For each tuple returned
\* by get_scheduled_scenes(now), in the order returned: switch, mark the row,
\* and insert the successor of a re-armed row.
CheckSchedules(plan) ==
    \E dues \in {GetScheduledScenes(sched, Fmt(now), plan)} :
    \E more \in {RearmedOf(dues)} :
    \E done \in {[k \in DOMAIN dues |->
                    [id |-> dues[k].id, status |-> StatusAfter(dues[k]),
                     audit |-> AuditAfter(dues[k])]]} :
        /\ sched' = [i \in DOMAIN sched |->
                        IF \E k \in DOMAIN done : done[k].id = i
                        THEN [sched[i] EXCEPT !.status =
                                 done[CHOOSE k \in DOMAIN done : done[k].id = i].status]
                        ELSE sched[i]]
                    \o [n \in DOMAIN more |-> Successor(more[n])]
        /\ audit' = [i \in DOMAIN audit |->
                        IF \E k \in DOMAIN done : done[k].id = i
                        THEN done[CHOOSE k \in DOMAIN done : done[k].id = i].audit
                        ELSE audit[i]]
                    \o [n \in DOMAIN more |-> NewAudit(more[n].id)]
        /\ hist' = HistAfter(hist, CallsOf(dues), now)
        /\ lastop' = IF dues = <<>> THEN lastop
                     ELSE LET r == Outcome(dues[Len(dues)])
                          IN  [op |-> "set_scene", by |-> "tick",
                               arg |-> dues[Len(dues)].scene_name,
                               prior |-> connected, ret |-> r.ret, sent |-> r.sent,
                               ok |-> r.ok, fired |-> r.fired,
                               raised |-> r.raised, val |-> Repr(r.ret)]
        /\ UNCHANGED <<connected, client, last_error, observers, remoteUp, now,
                       result,
                   loop>>

\* The clock advances by one second.
Advance ==
    /\ now < MaxTime
    /\ now' = now + 1
    /\ UNCHANGED <<connected, client, last_error, observers, remoteUp, sched,
                   hist, audit, lastop, result,
                   loop>>

----------------------------------------------------------------------------
(* The event loop of the GUI thread.  Both timers are QTimer objects made in
   the GUI thread and their handlers are bound methods, so a timeout is an
   event of that thread's loop and the handler runs in it.  loop.active is
   the stack of handlers that have started and not returned, loop.pending
   the timers whose timeout waits to be delivered (one per timer, however
   many intervals went by), loop.next the time each timer expires next. *)

Timers == {"tick", "refresh"}

\* The interval of a timer, in seconds of the clock.
Period(t) == IF t = "tick" THEN schedule_timer_ms \div 1000 ELSE scene_timer_ms \div 1000

NoLoop == [active |-> <<>>, pending |-> {},
           next |-> [t \in Timers |-> StartTime + Period(t)]]

\* The remote calls a handler makes at most: a tick one set_scene per due
\* row, a refresh one get_current_scene.
CallsOfHandler(t) == IF t = "tick" THEN MaxEntries ELSE 1

\* A timer's interval has gone by: its timeout is posted to the loop.
TimerExpires(t) ==
    /\ loop.next[t] <= now
    /\ loop' = [loop EXCEPT !.pending = @ \cup {t},
                            !.next[t] = @ + Period(t)]
    /\ UNCHANGED <<connected, client, last_error, observers, remoteUp, now,
                   sched, hist, audit, lastop, result>>

\* A loop that delivers a timeout while a handler waits for its remote call.
DispatchableWhileWaiting(l) == Len(l.active) < 2

\* The loop delivers the next event when the handler it called has returned.
Dispatchable(l) == l.active = <<>>

\* The loop delivers a pending timeout: the handler starts.
Dispatch(t) ==
    /\ Dispatchable(loop)
    /\ t \in loop.pending
    /\ loop' = [loop EXCEPT !.pending = @ \ {t},
                            !.active = Append(@, [h |-> t, calls |-> 0,
                                                  calling |-> FALSE])]
    /\ UNCHANGED <<connected, client, last_error, observers, remoteUp, now,
                   sched, hist, audit, lastop, result>>

\* The handler that started last is the one that runs.
Running == loop.active[Len(loop.active)]

\* The running handler sends a remote request and waits for the answer.
BeginCall ==
    /\ loop.active # <<>>
    /\ ~Running.calling
    /\ Running.calls < CallsOfHandler(Running.h)
    /\ loop' = [loop EXCEPT !.active[Len(loop.active)].calling = TRUE]
    /\ UNCHANGED <<connected, client, last_error, observers, remoteUp, now,
                   sched, hist, audit, lastop, result>>

\* The answer, an error or the timeout of the request arrives.
EndCall ==
    /\ loop.active # <<>>
    /\ Running.calling
    /\ loop' = [loop EXCEPT !.active[Len(loop.active)].calling = FALSE,
                            !.active[Len(loop.active)].calls = @ + 1]
    /\ UNCHANGED <<connected, client, last_error, observers, remoteUp, now,
                   sched, hist, audit, lastop, result>>

\* The running handler returns to the loop.
Return ==
    /\ loop.active # <<>>
    /\ ~Running.calling
    /\ loop' = [loop EXCEPT !.active = SubSeq(@, 1, Len(@) - 1)]
    /\ UNCHANGED <<connected, client, last_error, observers, remoteUp, now,
                   sched, hist, audit, lastop, result>>

LoopNext ==
    \/ \E t \in Timers : TimerExpires(t)
    \/ \E t \in Timers : Dispatch(t)
    \/ BeginCall
    \/ EndCall
    \/ Return
    \/ Advance

----------------------------------------------------------------------------
(* Environment *)

RemoteFails ==
    /\ remoteUp
    /\ remoteUp' = FALSE
    /\ UNCHANGED <<connected, client, last_error, observers, now, sched, hist,
                   audit, lastop, result,
                   loop>>

RemoteRecovers ==
    /\ ~remoteUp
    /\ remoteUp' = TRUE
    /\ UNCHANGED <<connected, client, last_error, observers, now, sched, hist,
                   audit, lastop, result,
                   loop>>

----------------------------------------------------------------------------
(* The controller on its own, driven by any caller. *)

Init ==
    /\ connected = FALSE
    /\ client = "None"
    /\ last_error = ""
    /\ observers = <<>>
    /\ remoteUp \in BOOLEAN
    /\ now = StartTime
    /\ sched = <<>>
    /\ hist = <<>>
    /\ audit = <<>>
    /\ lastop = NoOp
    /\ result = NoResult
    /\ loop = NoLoop

Next ==
    \/ \E h \in Hosts, p \in Ports, w \in Passwords, v \in BOOLEAN : Connect(h, p, w, v)
    \/ \E c \in BOOLEAN : Disconnect(c)
    \/ \E cb \in {Display, Raising} : AddObserver(cb)
    \/ \E n \in SceneNames : SetScene(n)
    \/ GetScenes
    \/ \E a \in RemoteScenes : GetCurrentScene("user", a)
    \/ RemoteFails
    \/ RemoteRecovers

Spec == Init /\ [][Next]_vars

----------------------------------------------------------------------------
(* A direct call of DatabaseManager.get_scheduled_scenes(datetime_str) with
   the text of time t. *)

Query(t, plan) ==
    /\ result' = [at |-> t, rows |-> GetScheduledScenes(sched, Fmt(t), plan)]
    /\ UNCHANGED <<connected, client, last_error, observers, remoteUp, now,
                   sched, hist, audit, lastop, loop>>

Tick == \E plan \in {"rowid", "time"} : CheckSchedules(plan)

GoodPort == <<4, 4, 5, 5>>

----------------------------------------------------------------------------
(* The scheduler: the operator connects, disconnects and schedules, the
   clock advances and the schedule timer ticks. *)

SchedNext ==
    \/ Connect("localhost", GoodPort, "secret", TRUE)
    \/ Disconnect(TRUE)
    \/ \E n \in {"A", "X"}, t \in ScheduleTimes, r \in Repeats : AddSchedule(n, t, r)
    \/ Tick
    \/ Advance

SchedSpec == Init /\ [][SchedNext]_vars

----------------------------------------------------------------------------
(* The scheduler against a service that comes and goes.  The schedule timer
   keeps firing: a tick that has something to do eventually happens. *)

RetryNext ==
    \/ Connect("localhost", GoodPort, "secret", TRUE)
    \/ Disconnect(TRUE)
    \/ \E t \in ScheduleTimes : AddSchedule("A", t, 0)
    \/ Tick
    \/ Advance
    \/ RemoteFails
    \/ RemoteRecovers

\* The schedule timer fires every second: a tick that can change something
\* eventually happens.
RetrySpec == Init /\ [][RetryNext]_vars /\ WF_vars(Tick)

----------------------------------------------------------------------------
(* The history: the hook is registered as an observer, scenes are switched
   by hand and by the scheduler. *)

\* The times of the history: two, so that a record has a duration.
HistTimes == {StartTime, StartTime + 1}

HistNext ==
    \/ AddObserver(Hook)
    \/ Connect("localhost", GoodPort, "secret", TRUE)
    \/ Disconnect(TRUE)
    \/ \E n \in {"B", "X"} : SetScene(n)
    \/ AddSchedule("A", now, 0)
    \/ Tick
    \/ now + 1 \in HistTimes /\ Advance

HistSpec == Init /\ [][HistNext]_vars

----------------------------------------------------------------------------
(* The application: the operator connects (also with a bad port or against
   a handshake that fails), disconnects, lists the scenes, switches by hand
   and schedules; the schedule timer ticks and the scene timer refreshes the
   current scene; the service comes and goes. *)

\* _update_scenes: the 2 s scene timer asks for the current scene.
UpdateScenes == \E a \in RemoteScenes : GetCurrentScene("refresh", a)

AppNext ==
    \/ \E p \in {GoodPort, <<NonDigit>>}, v \in BOOLEAN :
           Connect("localhost", p, "secret", v)
    \/ \E c \in BOOLEAN : Disconnect(c)
    \/ GetScenes
    \/ SetScene("B")
    \/ \E n \in {"A", "X"} : AddSchedule(n, now, 0)
    \/ Tick
    \/ UpdateScenes
    \/ RemoteFails
    \/ RemoteRecovers

AppSpec == Init /\ [][AppNext]_vars

----------------------------------------------------------------------------
(* The two timers and their handlers in the event loop, while the clock
   advances and remote calls take any time. *)

LoopSpec == Init /\ [][LoopNext]_vars

----------------------------------------------------------------------------
(* The query on its own: any content of scene_schedule the application can
   have written, and any time asked for. *)

Statuses == {"pending", "executed", "failed"}

StoredRows ==
    {[scene_name |-> "A", schedule_time |-> Fmt(t), repeat_days |-> 0,
      status |-> st] : t \in StartTime..MaxTime, st \in Statuses}

Stores == UNION {[1..n -> StoredRows] : n \in 0..MaxRows}

QueryInit ==
    /\ connected = FALSE
    /\ client = "None"
    /\ last_error = ""
    /\ observers = <<>>
    /\ remoteUp = TRUE
    /\ now = StartTime
    /\ sched \in Stores
    /\ hist = <<>>
    /\ audit = [i \in DOMAIN sched |-> NewAudit(0)]
    /\ lastop = NoOp
    /\ result = NoResult
    /\ loop = NoLoop

QueryNext == \E t \in StartTime..MaxTime, plan \in {"rowid", "time"} : Query(t, plan)

QuerySpec == QueryInit /\ [][QueryNext]_vars

----------------------------------------------------------------------------
(* Claims about the controller, checked under Spec. *)

\* C1: whenever connect returns failure, from any prior state and for any
\* way of failing, the controller is not connected afterwards.
C1_FailedConnectLeavesDisconnected ==
    (lastop.op = "connect" /\ ~lastop.ret) => ~connected

\* C2: whenever set_scene performed a remote switch that succeeded, every
\* registered observer was called with the scene name, in registration
\* order, and set_scene returned success, whatever the observers do.
C2_AllObserversNotified ==
    (lastop.op = "set_scene" /\ lastop.ok) =>
        /\ lastop.ret
        /\ lastop.fired = [i \in DOMAIN observers |->
                              [cb |-> observers[i], arg |-> lastop.arg]]

TimesFired(cb) ==
    Cardinality({j \in DOMAIN lastop.fired : lastop.fired[j].cb = cb})

\* C3: registration is idempotent: one successful set_scene calls each
\* distinct registered callback exactly once.
C3_NoDoubleFire ==
    (lastop.op = "set_scene" /\ lastop.ret) =>
        \A i \in DOMAIN observers : TimesFired(observers[i]) = 1

\* C4: set_scene on a controller that is not connected fails fast, for every
\* name: it returns failure, sends no remote command and calls no observer.
C4_NotConnectedFailsFast ==
    (lastop.op = "set_scene" /\ ~lastop.prior) =>
        (~lastop.ret /\ ~lastop.sent /\ lastop.fired = <<>>)

\* set_scene was called after a session ended, with the service up, the
\* scene known to it and observers registered, and it failed fast.
C4_Witness ==
    /\ lastop.op = "set_scene" /\ ~lastop.prior /\ ~lastop.ret
    /\ lastop.arg \in RemoteScenes
    /\ remoteUp /\ client # "None" /\ observers # <<>>

----------------------------------------------------------------------------
(* Claims about the scheduler, checked under SchedSpec. *)

Due == DueIds(sched, Fmt(now))

\* C5: a tick while the controller is disconnected changes no schedule row
\* and creates none (every due row stays pending, no successor appears, no
\* remote command is sent), and a row that is due stays due for as long as
\* it is pending, so the next tick returns it again.
C5_DisconnectedTickKeepsPending ==
    [][ /\ (~connected /\ Tick) =>
              /\ sched' = sched
              /\ DOMAIN audit' = DOMAIN audit
              /\ \A i \in DOMAIN audit :
                    audit'[i].att = audit[i].att /\ audit'[i].ok = audit[i].ok
        /\ \A i \in Due : sched'[i].status = "pending" =>
                              i \in DueIds(sched', Fmt(now')) ]_vars

\* A tick ran with the controller disconnected and two rows due; both are
\* pending and due after it.
C5_Witness ==
    /\ lastop.op = "set_scene" /\ lastop.by = "tick" /\ ~lastop.ret
    /\ ~connected
    /\ Cardinality(Due) >= 2
    /\ \A i \in Due : audit[i].deferred

Children(i) == {j \in DOMAIN audit : audit[j].origin = i}

Succeeded(i) == sched[i].status = "executed" /\ audit[i].ok = 1

C6_State ==
    \A i \in DOMAIN sched : Succeeded(i) =>
        /\ i \notin DueIds(sched, Fmt(MaxTime + Day))
        /\ IF sched[i].repeat_days > 1
           THEN \E j \in DOMAIN sched :
                    /\ Children(i) = {j}
                    /\ sched[j].scene_name = sched[i].scene_name
                    /\ int(sched[j].schedule_time) = int(sched[i].schedule_time) + Day
                    /\ sched[j].repeat_days = sched[i].repeat_days - 1
           ELSE Children(i) = {}

C6_Step ==
    /\ \A i \in DOMAIN sched :
          /\ i \in DOMAIN sched'
          /\ sched'[i].schedule_time = sched[i].schedule_time
          /\ Succeeded(i) => sched'[i] = sched[i]
    /\ \A j \in DOMAIN sched' \ DOMAIN sched : sched'[j].status = "pending"

\* C6: a row that executed successfully has status executed and is never due
\* again; it has exactly one successor when its count N is above 1 (same
\* scene, one day later, count N - 1, created pending) and none otherwise;
\* no row's schedule_time ever changes.
C6_RepeatRearmsOnce == [](C6_State) /\ [][C6_Step]_vars

\* A row with count 2 executed and its successor, with count 1, executed
\* too and left no successor.
C6_Witness ==
    \E i, j \in DOMAIN sched :
        /\ sched[i].repeat_days = 2 /\ Succeeded(i)
        /\ Children(i) = {j}
        /\ sched[j].repeat_days = 1 /\ Succeeded(j)
        /\ Children(j) = {}

\* C7: a tick with the controller connected marks every due row whose scene
\* the service rejects as failed, with a reason; a failed row stays failed
\* and no remote command is ever sent for it again.
C7_RejectedIsTerminal ==
    [][ /\ (connected /\ Tick) =>
              \A i \in Due : sched[i].scene_name \notin RemoteScenes =>
                  (sched'[i].status = "failed" /\ audit'[i].reason # "")
        /\ \A i \in DOMAIN sched : sched[i].status = "failed" =>
              (sched'[i].status = "failed" /\ audit'[i].att = audit[i].att) ]_vars

\* A row whose scene the service rejects was tried once and is failed, and
\* the clock has moved on past it while the controller is connected.
C7_Witness ==
    \E i \in DOMAIN sched :
        /\ sched[i].scene_name \notin RemoteScenes
        /\ sched[i].status = "failed" /\ audit[i].reason # ""
        /\ audit[i].att = 1
        /\ int(sched[i].schedule_time) < now
        /\ connected /\ remoteUp

----------------------------------------------------------------------------
(* Claims about retry after reconnection, checked under RetrySpec. *)

RowIds == 1..MaxEntries

\* Row i was due while the controller was disconnected and a tick left it
\* pending; the controller is connected now, to a service that answers and
\* knows the scene.
Reconnected(i) ==
    /\ i \in DOMAIN sched /\ i \in Due
    /\ audit[i].deferred
    /\ sched[i].scene_name \in RemoteScenes
    /\ connected /\ remoteUp

Executed(i) == i \in DOMAIN sched /\ sched[i].status = "executed"

C8_Once ==
    \A i \in DOMAIN sched :
        /\ audit[i].ok <= 1
        /\ sched[i].status = "executed" => audit[i].ok = 1

\* C8: a row that was due and pending while the controller was disconnected,
\* and whose scene the service accepts, is executed once the controller is
\* connected again: from the reconnection on, either the row is eventually
\* executed or the connection does not last; over the whole run at most
\* one successful switch is made for it, and exactly one once it is executed.
C8_RetriedAfterReconnect ==
    /\ [](C8_Once)
    /\ \A i \in RowIds :
          Reconnected(i) ~> (Executed(i) \/ ~(connected /\ remoteUp))

\* A row that a tick left pending for lack of a connection was executed
\* later, with one remote command.
C8_Witness ==
    \E i \in DOMAIN sched :
        /\ audit[i].deferred
        /\ sched[i].status = "executed"
        /\ audit[i].att = 1 /\ audit[i].ok = 1

----------------------------------------------------------------------------
(* Claims about the history, checked under HistSpec. *)

OpenRecords == {i \in DOMAIN hist : hist[i].end_time = -1}

\* C9: in every reachable state, whatever the interleaving of manual and
\* scheduled switches, failed switches, connects and disconnects, at most one
\* history record has no end_time.
C9_AtMostOneOpen == Cardinality(OpenRecords) <= 1

\* A scene switched by the scheduler and a scene switched by hand are both
\* in the history, one record closed and one open.
C9_Witness ==
    /\ Cardinality(OpenRecords) = 1
    /\ \E i, j \in DOMAIN hist :
          /\ hist[i].scene_name = "A" /\ hist[j].scene_name = "B"
          /\ hist[i].end_time # -1 \/ hist[j].end_time # -1

----------------------------------------------------------------------------
(* Claims about the query, checked under QuerySpec. *)

ReturnedIds == {result.rows[k].id : k \in DOMAIN result.rows}

\* The rows that are pending and scheduled at or before time t.
DueAt(t) ==
    {i \in DOMAIN sched : sched[i].status = "pending" /\ int(sched[i].schedule_time) <= t}

\* C10: for every content of the table and every time asked for,
\* get_scheduled_scenes returns exactly the rows that are pending and
\* scheduled at or before that time, each once, with its own scene_name and
\* repeat_days: no executed or failed row, no later row, no due row left out.
C10_ReturnsExactlyDue ==
    result.at # -1 =>
        /\ ReturnedIds = DueAt(result.at)
        /\ Cardinality(ReturnedIds) = Len(result.rows)
        /\ \A k \in DOMAIN result.rows :
              /\ result.rows[k].scene_name = sched[result.rows[k].id].scene_name
              /\ result.rows[k].repeat_days = sched[result.rows[k].id].repeat_days

\* A query returned a row scheduled exactly at the time asked for and left
\* out a later pending row, an executed row and a failed row, across a change
\* of the first digit of the time.
C10_Witness ==
    /\ result.at = 10
    /\ \E i, j \in DOMAIN sched :
          /\ i \in ReturnedIds /\ int(sched[i].schedule_time) = result.at
          /\ j \in ReturnedIds /\ int(sched[j].schedule_time) = 9
    /\ \E i \in DOMAIN sched :
          /\ i \notin ReturnedIds
          /\ sched[i].status # "pending" /\ int(sched[i].schedule_time) <= result.at

\* The time of the k-th row returned.
ReturnedTime(k) == int(sched[result.rows[k].id].schedule_time)

\* C11: for every content of the table, in whatever order the rows were
\* inserted, the rows get_scheduled_scenes returns are in ascending order of
\* schedule_time.
C11_OrderedByTime ==
    result.at # -1 =>
        \A k, l \in DOMAIN result.rows : k < l => ReturnedTime(k) <= ReturnedTime(l)

----------------------------------------------------------------------------
(* Further claims about the controller, checked under Spec. *)

AnyDisconnect == \E c \in BOOLEAN : Disconnect(c)

\* C12: after disconnect returns the controller is not connected, from any
\* prior state and whether or not closing the transport raised; a disconnect
\* that follows a disconnect changes no field of the controller.
C12_DisconnectIdempotent ==
    /\ [](lastop.op = "disconnect" => ~connected)
    /\ [][ (lastop.op = "disconnect" /\ AnyDisconnect) =>
               /\ connected' = connected
               /\ client' = client
               /\ last_error' = last_error
               /\ observers' = observers ]_vars

\* disconnect was called on a connected controller, closing the transport
\* raised, and the controller is not connected.
C12_Witness ==
    /\ lastop.op = "disconnect" /\ lastop.prior
    /\ lastop.sent /\ ~lastop.ok
    /\ ~connected /\ client = "open"

\* What each operation returns when it fails.
FailureValue(op) ==
    CASE op = "connect" -> "False"
      [] op = "set_scene" -> "False"
      [] op = "get_scenes" -> "[]"
      [] op = "get_current_scene" -> "None"
      [] OTHER -> "None"

\* C13: no call of connect, disconnect, get_scenes, get_current_scene or
\* set_scene lets an exception reach its caller, and a call whose remote
\* request failed returned its failure value.
C13_NoExceptionEscapes ==
    /\ ~lastop.raised
    /\ (lastop.sent /\ ~lastop.ok) => lastop.val = FailureValue(lastop.op)

\* get_scenes was called on a connected controller, the remote request
\* raised, and the call returned [].
C13_Witness ==
    /\ lastop.op = "get_scenes" /\ lastop.prior
    /\ lastop.sent /\ ~lastop.ok /\ lastop.val = "[]"

\* A call of get_scenes, get_current_scene, set_scene or add_observer.
QueryOrSwitch ==
    \/ GetScenes
    \/ \E a \in RemoteScenes : GetCurrentScene("user", a)
    \/ \E n \in SceneNames : SetScene(n)
    \/ \E cb \in {Hook, Display, Raising} : AddObserver(cb)

\* C17: get_scenes, get_current_scene, set_scene and add_observer leave the
\* connection flag as it was, also when their remote request raises; a
\* set_scene on a connected controller always sends its remote command,
\* whatever failed before it.
C17_FlagUntouched ==
    /\ [][QueryOrSwitch => connected' = connected]_vars
    /\ []((lastop.op = "set_scene" /\ lastop.prior) => lastop.sent)

\* A remote request of get_current_scene failed on a connected controller,
\* which is still connected.
C17_Witness ==
    /\ lastop.op = "get_current_scene" /\ lastop.prior
    /\ lastop.sent /\ ~lastop.ok
    /\ connected

----------------------------------------------------------------------------
(* Claims about the application, checked under AppSpec. *)

AnyConnect ==
    \E h \in Hosts, p \in Ports, w \in Passwords, v \in BOOLEAN : Connect(h, p, w, v)

\* C14: the controller goes from not connected to connected only in a step
\* that is a connect call which returned success; never in a disconnect, a
\* get_scenes, a get_current_scene, a set_scene, a failed connect or a timer
\* tick.
C14_NoAutoReconnect ==
    [][(~connected /\ connected') => (AnyConnect /\ lastop'.ret)]_vars

\* The controller was connected by a connect call after a tick had found a
\* row due with no connection and had left it pending.
C14_Witness ==
    /\ connected
    /\ lastop.op = "connect" /\ lastop.ret /\ ~lastop.prior
    /\ \E i \in DOMAIN audit : audit[i].deferred

\* C15: a schedule row whose status is executed or failed keeps that status
\* in every step: ticks, switches, connects and disconnects.
C15_StatusOneWay ==
    [][\A i \in DOMAIN sched : sched[i].status \in {"executed", "failed"} =>
           (i \in DOMAIN sched' /\ sched'[i].status = sched[i].status)]_vars

\* One row is executed and one is failed, and the controller has been
\* disconnected since.
C15_Witness ==
    /\ \E i, j \in DOMAIN sched :
          sched[i].status = "executed" /\ sched[j].status = "failed"
    /\ lastop.op = "disconnect" /\ lastop.prior

----------------------------------------------------------------------------
(* Claims about the timers, checked under LoopSpec. *)

InFlight == {k \in DOMAIN loop.active : loop.active[k].calling}

\* C16: at every moment at most one timer handler has started and not
\* returned, so a tick never starts during a tick or a refresh, and at most
\* one remote call is in flight, however long a call takes.
C16_HandlersSerialized ==
    /\ Len(loop.active) <= 1
    /\ Cardinality(InFlight) <= 1

\* A tick waits for its second remote call while the clock has moved on
\* and the timeouts of both timers wait to be delivered.
C16_Witness ==
    /\ Len(loop.active) = 1
    /\ Running.h = "tick" /\ Running.calling /\ Running.calls = 1
    /\ loop.pending = Timers

====
